---- MODULE Spec2Model ----
(***************************************************************************)
(* Training steps of brainstorm (brainstorm/training/steppers.py):         *)
(* TrainingStep, ForwardStep, SgdStep, MomentumStep and NesterovStep.      *)
(*                                                                         *)
(* A driver holds the step objects of Steps.  Each step is bound by        *)
(* start() to a network of its own; the network, its handler and the       *)
(* schedules are the collaborators steppers.py calls.  Scalars and tensor  *)
(* elements are exact rationals <<numerator, denominator>>, so equalities  *)
(* below are equalities of real arithmetic.                                *)
(***************************************************************************)
EXTENDS Integers, Sequences, FiniteSets, TLC

\* ------------------------------------------------------------ bounds ----
MaxRuns == 2      \* run() calls per step object
MaxStarts == 1    \* start() calls per step object

Steps == {"a", "b"}

\* ------------------------------------------------- rational numbers ----
Abs(x) == IF x < 0 THEN -x ELSE x

RECURSIVE GCD(_, _)
GCD(a, b) == IF b = 0 THEN a ELSE GCD(b, a % b)

Rat(n, d) ==
    LET g == GCD(Abs(n), Abs(d))
        s == IF d < 0 THEN -1 ELSE 1
    IN  <<(s * n) \div g, (s * d) \div g>>

Zero == <<0, 1>>
One == <<1, 1>>
RAdd(x, y) ==
    LET g == GCD(x[2], y[2])
    IN  Rat(x[1] * (y[2] \div g) + y[1] * (x[2] \div g), (x[2] \div g) * y[2])
RMul(x, y) == Rat(x[1] * y[1], x[2] * y[2])
RNeg(x) == <<-x[1], x[2]>>
RSub(x, y) == RAdd(x, RNeg(y))

RECURSIVE RSum(_)
RSum(t) == IF t = <<>> THEN Zero ELSE RAdd(t[1], RSum(Tail(t)))

\* --------------------------------------------------------- schedules ----
\* get_schedule(spec): a constant or a time-varying schedule; calling the
\* schedule returns the value of the next call index and advances it.
Constant(v) == [kind |-> "Constant", values |-> <<v>>]
TimeVarying(vs) == [kind |-> "TimeVarying", values |-> vs]

get_schedule(spec) == [spec |-> spec, t |-> 0]

ScheduleValue(spec, i) == spec.values[((i - 1) % Len(spec.values)) + 1]

CallSchedule(sch) ==
    [value |-> ScheduleValue(sch.spec, sch.t + 1),
     schedule |-> [sch EXCEPT !.t = @ + 1]]

LearningRateSpecs == {Constant(Rat(1, 10)), TimeVarying(<<Rat(1, 10), Rat(1, 5)>>)}
MomentumSpecs == {Constant(Zero), TimeVarying(<<Rat(1, 2), Rat(1, 4)>>)}

\* ----------------------------------------------------------- handler ----
shape(t) == Len(t)
zeros(shp) == [i \in 1..shp |-> Zero]
\* out <- s * t   (out is overwritten)
mult_st(s, t, out) == [i \in 1..Len(t) |-> RMul(s, t[i])]
\* out <- a + b
add_tt(a, b, out) == [i \in 1..Len(a) |-> RAdd(a[i], b[i])]
\* out <- out + s * t
mult_add_st(s, t, out) == [i \in 1..Len(out) |-> RAdd(out[i], RMul(s, t[i]))]

\* ----------------------------------------------------------- network ----
\* The network is a mock: backward_pass delivers either a scripted gradient
\* (a function of the index of the backward pass only) or the gradient of
\* the quadratic loss |parameters|^2 / 2, which is the parameters themselves.
GradScripts == {"scripted", "quadratic"}
InitialParameters == {<<Rat(1, 1), Rat(2, 1)>>, <<Rat(-1, 1)>>}

ScriptedGradient(shp, i) == [j \in 1..shp |-> Rat(1 + (i - 1) * j, 1)]

Network(p0, script) ==
    [buffer |-> [parameters |-> p0, gradients |-> zeros(shape(p0))],
     script |-> script,
     loss |-> Zero,
     forward_calls |-> 0,
     backward_calls |-> 0,
     training_pass |-> FALSE]

forward_pass(n, training_pass) ==
    [n EXCEPT !.forward_calls = @ + 1,
              !.training_pass = training_pass,
              !.loss = RAdd(RSum(n.buffer.parameters), Rat(n.forward_calls + 1, 1))]

get_loss_value(n) == n.loss

backward_pass(n) ==
    [n EXCEPT !.backward_calls = @ + 1,
              !.buffer.gradients =
                  IF n.script = "quadratic" THEN n.buffer.parameters
                  ELSE ScriptedGradient(shape(n.buffer.parameters), n.backward_calls + 1)]

\* ------------------------------------------------------ python values ----
None == [tag |-> "None"]
Tensor(t) == [tag |-> "tensor", data |-> t]
NotCalled == [tag |-> "NotCalled"]
AttributeError == [tag |-> "AttributeError"]
NetRef(k) == [tag |-> "net", id |-> k]
Float(x) == [tag |-> "float", value |-> x]

\* One entry of the record of a run(): the call made, and the parameters and
\* the auxiliary tensor (update / velocity) at the moment of the call.
Ev(call, n, aux) == [call |-> call, parameters |-> n.buffer.parameters, aux |-> aux]

Outcome(self, n, r, tr) == [self |-> self, net |-> n, ret |-> r, trace |-> tr]

\* ------------------------------------------------------- constructors ----
TrainingStep_init == [class |-> "TrainingStep", net |-> None]

ForwardStep_init(use_training_pass) ==
    [class |-> "ForwardStep", net |-> None, use_training_pass |-> use_training_pass]

SgdStep_init(learning_rate) ==
    [class |-> "SgdStep", net |-> None,
     learning_rate_schedule |-> get_schedule(learning_rate),
     update |-> None]

MomentumStep_init(class, learning_rate, momentum, scale_learning_rate) ==
    [class |-> class, net |-> None,
     velocity |-> None,
     learning_rate_schedule |-> get_schedule(learning_rate),
     momentum_schedule |-> get_schedule(momentum),
     scale_learning_rate |-> scale_learning_rate]

Classes == {"TrainingStep", "ForwardStep", "SgdStep", "MomentumStep", "NesterovStep"}

New(class, utp, lr, m, slr) ==
    CASE class = "TrainingStep" -> TrainingStep_init
      [] class = "ForwardStep" -> ForwardStep_init(utp)
      [] class = "SgdStep" -> SgdStep_init(lr)
      [] OTHER -> MomentumStep_init(class, lr, m, slr)

\* -------------------------------------------------------------- start ----
\* start(net): self.net = net; self._initialize(), which does nothing.
TrainingStep_start(self, k) == [self EXCEPT !.net = NetRef(k)]

\* Variant: the update tensor is allocated with one element.
SgdStep_start_scalar(self, k, n) ==
    [TrainingStep_start(self, k) EXCEPT !.update = Tensor(zeros(1))]

SgdStep_start(self, k, n) ==
    [TrainingStep_start(self, k) EXCEPT !.update = Tensor(zeros(shape(n.buffer.parameters)))]

MomentumStep_start(self, k, n) ==
    [TrainingStep_start(self, k) EXCEPT !.velocity = Tensor(zeros(shape(n.buffer.parameters)))]

\* ---------------------------------------------------------------- run ----
TrainingStep_run(self, n) == Outcome(self, n, None, <<>>)

\* Variant: run() is not overridden.
ForwardStep_run_base(self, n) == TrainingStep_run(self, n)

\* Variant: the forward pass always runs in training mode.
ForwardStep_run_training(self, n) ==
    IF self.net = None
    THEN Outcome(self, n, AttributeError, <<>>)
    ELSE LET n1 == forward_pass(n, TRUE)
         IN  Outcome(self, n1, Float(get_loss_value(n1)),
                     <<Ev("forward_pass", n, None), Ev("get_loss_value", n1, None)>>)

ForwardStep_run(self, n) ==
    IF self.net = None
    THEN Outcome(self, n, AttributeError, <<>>)
    ELSE LET n1 == forward_pass(n, self.use_training_pass)
         IN  Outcome(self, n1, Float(get_loss_value(n1)),
                     <<Ev("forward_pass", n, None), Ev("get_loss_value", n1, None)>>)

\* Variant: -learning_rate * gradients is accumulated into update.
SgdStep_run_accumulate(self, n) ==
    LET lrs == CallSchedule(self.learning_rate_schedule)
        learning_rate == lrs.value
        self1 == [self EXCEPT !.learning_rate_schedule = lrs.schedule]
        t1 == <<Ev("learning_rate_schedule", n, self.update)>>
    IN  IF self.net = None
        THEN Outcome(self1, n, AttributeError, t1)
        ELSE LET n1 == forward_pass(n, TRUE)
                 loss == get_loss_value(n1)
                 n2 == backward_pass(n1)
                 update == mult_add_st(RNeg(learning_rate), n2.buffer.gradients, self.update.data)
                 n3 == [n2 EXCEPT !.buffer.parameters = add_tt(update, n2.buffer.parameters, @)]
             IN  Outcome([self1 EXCEPT !.update = Tensor(update)], n3, Float(loss),
                         t1 \o <<Ev("forward_pass", n, self.update),
                                 Ev("get_loss_value", n1, self.update),
                                 Ev("backward_pass", n1, self.update),
                                 Ev("mult_add_st", n2, self.update),
                                 Ev("add_tt", n2, Tensor(update))>>)

SgdStep_run(self, n) ==
    LET lrs == CallSchedule(self.learning_rate_schedule)
        learning_rate == lrs.value
        self1 == [self EXCEPT !.learning_rate_schedule = lrs.schedule]
        t1 == <<Ev("learning_rate_schedule", n, self.update)>>
    IN  IF self.net = None
        THEN Outcome(self1, n, AttributeError, t1)
        ELSE LET n1 == forward_pass(n, TRUE)
                 loss == get_loss_value(n1)
                 n2 == backward_pass(n1)
                 update == mult_st(RNeg(learning_rate), n2.buffer.gradients, self.update.data)
                 n3 == [n2 EXCEPT !.buffer.parameters = add_tt(update, n2.buffer.parameters, @)]
             IN  Outcome([self1 EXCEPT !.update = Tensor(update)], n3, Float(loss),
                         t1 \o <<Ev("forward_pass", n, self.update),
                                 Ev("get_loss_value", n1, self.update),
                                 Ev("backward_pass", n1, self.update),
                                 Ev("mult_st", n2, self.update),
                                 Ev("add_tt", n2, Tensor(update))>>)

\* Variant: the momentum schedule is called again for the scaling.
SampleHyper_resample(self) ==
    LET lrs == CallSchedule(self.learning_rate_schedule)
        ms == CallSchedule(self.momentum_schedule)
        ms2 == IF self.scale_learning_rate THEN CallSchedule(ms.schedule) ELSE ms
    IN  [learning_rate |-> IF self.scale_learning_rate
                           THEN RMul(lrs.value, RSub(One, ms2.value))
                           ELSE lrs.value,
         momentum |-> ms.value,
         self |-> [self EXCEPT !.learning_rate_schedule = lrs.schedule,
                               !.momentum_schedule = ms2.schedule]]

\* Variant: the learning rate is scaled by momentum instead of 1 - momentum.
SampleHyper_scale(self) ==
    LET lrs == CallSchedule(self.learning_rate_schedule)
        ms == CallSchedule(self.momentum_schedule)
    IN  [learning_rate |-> IF self.scale_learning_rate
                           THEN RMul(lrs.value, ms.value)
                           ELSE lrs.value,
         momentum |-> ms.value,
         self |-> [self EXCEPT !.learning_rate_schedule = lrs.schedule,
                               !.momentum_schedule = ms.schedule]]

\* learning_rate, momentum = the two schedules; learning_rate *= (1 - momentum)
\* when scale_learning_rate is set.
SampleHyper(self) ==
    LET lrs == CallSchedule(self.learning_rate_schedule)
        ms == CallSchedule(self.momentum_schedule)
        momentum == ms.value
    IN  [learning_rate |-> IF self.scale_learning_rate
                           THEN RMul(lrs.value, RSub(One, momentum))
                           ELSE lrs.value,
         momentum |-> momentum,
         self |-> [self EXCEPT !.learning_rate_schedule = lrs.schedule,
                               !.momentum_schedule = ms.schedule]]

\* Variant: the schedules are sampled after the backward pass.
MomentumStep_run_late(self, n) ==
    IF self.net = None
    THEN Outcome(self, n, AttributeError, <<>>)
    ELSE LET n1 == forward_pass(n, TRUE)
             loss == get_loss_value(n1)
             n2 == backward_pass(n1)
             h == SampleHyper(self)
             v1 == mult_st(h.momentum, self.velocity.data, self.velocity.data)
             v2 == mult_add_st(RNeg(h.learning_rate), n2.buffer.gradients, v1)
             n3 == [n2 EXCEPT !.buffer.parameters = add_tt(v2, n2.buffer.parameters, @)]
         IN  Outcome([h.self EXCEPT !.velocity = Tensor(v2)], n3, Float(loss),
                     <<Ev("forward_pass", n, self.velocity),
                       Ev("get_loss_value", n1, self.velocity),
                       Ev("backward_pass", n1, self.velocity),
                       Ev("learning_rate_schedule", n2, self.velocity),
                       Ev("momentum_schedule", n2, self.velocity),
                       Ev("mult_st", n2, self.velocity),
                       Ev("mult_add_st", n2, Tensor(v1)),
                       Ev("add_tt", n2, Tensor(v2))>>)

MomentumStep_run(self, n) ==
    LET h == SampleHyper(self)
        self1 == h.self
        t1 == <<Ev("learning_rate_schedule", n, self.velocity),
                Ev("momentum_schedule", n, self.velocity)>>
    IN  IF self.net = None
        THEN Outcome(self1, n, AttributeError, t1)
        ELSE LET n1 == forward_pass(n, TRUE)
                 loss == get_loss_value(n1)
                 n2 == backward_pass(n1)
                 v1 == mult_st(h.momentum, self.velocity.data, self.velocity.data)
                 v2 == mult_add_st(RNeg(h.learning_rate), n2.buffer.gradients, v1)
                 n3 == [n2 EXCEPT !.buffer.parameters = add_tt(v2, n2.buffer.parameters, @)]
             IN  Outcome([self1 EXCEPT !.velocity = Tensor(v2)], n3, Float(loss),
                         t1 \o <<Ev("forward_pass", n, self.velocity),
                                 Ev("get_loss_value", n1, self.velocity),
                                 Ev("backward_pass", n1, self.velocity),
                                 Ev("mult_st", n2, self.velocity),
                                 Ev("mult_add_st", n2, Tensor(v1)),
                                 Ev("add_tt", n2, Tensor(v2))>>)

\* Variant: run() is inherited from MomentumStep.
NesterovStep_run_inherited(self, n) == MomentumStep_run(self, n)

\* Variant: the gradient step is not applied to the parameters.
NesterovStep_run_nocorrection(self, n) ==
    LET h == SampleHyper(self)
        self1 == h.self
        t1 == <<Ev("learning_rate_schedule", n, self.velocity),
                Ev("momentum_schedule", n, self.velocity)>>
    IN  IF self.net = None
        THEN Outcome(self1, n, AttributeError, t1)
        ELSE LET v1 == mult_st(h.momentum, self.velocity.data, self.velocity.data)
                 n1 == [n EXCEPT !.buffer.parameters = add_tt(v1, n.buffer.parameters, @)]
                 n2 == forward_pass(n1, TRUE)
                 loss == get_loss_value(n2)
                 n3 == backward_pass(n2)
                 v2 == mult_add_st(RNeg(h.learning_rate), n3.buffer.gradients, v1)
             IN  Outcome([self1 EXCEPT !.velocity = Tensor(v2)], n3, Float(loss),
                         t1 \o <<Ev("mult_st", n, self.velocity),
                                 Ev("add_tt", n, Tensor(v1)),
                                 Ev("forward_pass", n1, Tensor(v1)),
                                 Ev("get_loss_value", n2, Tensor(v1)),
                                 Ev("backward_pass", n2, Tensor(v1)),
                                 Ev("mult_add_st", n3, Tensor(v1))>>)

\* Variant: after the lookahead the whole velocity is added to the parameters.
NesterovStep_run_twice(self, n) ==
    LET h == SampleHyper(self)
        self1 == h.self
        t1 == <<Ev("learning_rate_schedule", n, self.velocity),
                Ev("momentum_schedule", n, self.velocity)>>
    IN  IF self.net = None
        THEN Outcome(self1, n, AttributeError, t1)
        ELSE LET v1 == mult_st(h.momentum, self.velocity.data, self.velocity.data)
                 n1 == [n EXCEPT !.buffer.parameters = add_tt(v1, n.buffer.parameters, @)]
                 n2 == forward_pass(n1, TRUE)
                 loss == get_loss_value(n2)
                 n3 == backward_pass(n2)
                 v2 == mult_add_st(RNeg(h.learning_rate), n3.buffer.gradients, v1)
                 n4 == [n3 EXCEPT !.buffer.parameters = add_tt(v2, n3.buffer.parameters, @)]
             IN  Outcome([self1 EXCEPT !.velocity = Tensor(v2)], n4, Float(loss),
                         t1 \o <<Ev("mult_st", n, self.velocity),
                                 Ev("add_tt", n, Tensor(v1)),
                                 Ev("forward_pass", n1, Tensor(v1)),
                                 Ev("get_loss_value", n2, Tensor(v1)),
                                 Ev("backward_pass", n2, Tensor(v1)),
                                 Ev("mult_add_st", n3, Tensor(v1)),
                                 Ev("add_tt", n3, Tensor(v2))>>)

NesterovStep_run(self, n) ==
    LET h == SampleHyper(self)
        self1 == h.self
        t1 == <<Ev("learning_rate_schedule", n, self.velocity),
                Ev("momentum_schedule", n, self.velocity)>>
    IN  IF self.net = None
        THEN Outcome(self1, n, AttributeError, t1)
        ELSE LET v1 == mult_st(h.momentum, self.velocity.data, self.velocity.data)
                 n1 == [n EXCEPT !.buffer.parameters = add_tt(v1, n.buffer.parameters, @)]
                 n2 == forward_pass(n1, TRUE)
                 loss == get_loss_value(n2)
                 n3 == backward_pass(n2)
                 v2 == mult_add_st(RNeg(h.learning_rate), n3.buffer.gradients, v1)
                 n4 == [n3 EXCEPT !.buffer.parameters =
                                      mult_add_st(RNeg(h.learning_rate), n3.buffer.gradients, @)]
             IN  Outcome([self1 EXCEPT !.velocity = Tensor(v2)], n4, Float(loss),
                         t1 \o <<Ev("mult_st", n, self.velocity),
                                 Ev("add_tt", n, Tensor(v1)),
                                 Ev("forward_pass", n1, Tensor(v1)),
                                 Ev("get_loss_value", n2, Tensor(v1)),
                                 Ev("backward_pass", n2, Tensor(v1)),
                                 Ev("mult_add_st", n3, Tensor(v1)),
                                 Ev("mult_add_st", n3, Tensor(v2))>>)

\* -------------------------------------------------------------- state ----
\* steps[k]: the step objects; nets[k]: the network step k is started on;
\* ret[k]: what the latest run() of step k returned or raised;
\* trace[k]: the calls the latest run() of step k made;
\* nstart[k], nrun[k]: the start() and run() calls on step k so far.
VARIABLES steps, nets, ret, trace, nstart, nrun

vars == <<steps, nets, ret, trace, nstart, nrun>>

Init ==
    \E cls \in [Steps -> Classes], utp \in BOOLEAN, slr \in BOOLEAN,
       lr \in LearningRateSpecs, m \in MomentumSpecs,
       p0 \in InitialParameters, script \in GradScripts :
        /\ steps = [k \in Steps |-> New(cls[k], utp, lr, m, slr)]
        /\ nets = [k \in Steps |-> Network(p0, script)]
        /\ ret = [k \in Steps |-> NotCalled]
        /\ trace = [k \in Steps |-> <<>>]
        /\ nstart = [k \in Steps |-> 0]
        /\ nrun = [k \in Steps |-> 0]

Started(k, self) ==
    /\ nstart[k] < MaxStarts
    /\ steps' = [steps EXCEPT ![k] = self]
    /\ nstart' = [nstart EXCEPT ![k] = @ + 1]
    /\ UNCHANGED <<nets, ret, trace, nrun>>

Ran(k, out) ==
    /\ nrun[k] < MaxRuns
    /\ steps' = [steps EXCEPT ![k] = out.self]
    /\ nets' = [nets EXCEPT ![k] = out.net]
    /\ ret' = [ret EXCEPT ![k] = out.ret]
    /\ trace' = [trace EXCEPT ![k] = out.trace]
    /\ nrun' = [nrun EXCEPT ![k] = @ + 1]
    /\ UNCHANGED nstart

StartTrainingStep(k) ==
    /\ steps[k].class \in {"TrainingStep", "ForwardStep"}
    /\ Started(k, TrainingStep_start(steps[k], k))

StartSgdStep(k) ==
    /\ steps[k].class = "SgdStep"
    /\ Started(k, SgdStep_start(steps[k], k, nets[k]))

StartMomentumStep(k) ==
    /\ steps[k].class \in {"MomentumStep", "NesterovStep"}
    /\ Started(k, MomentumStep_start(steps[k], k, nets[k]))

RunTrainingStep(k) ==
    /\ steps[k].class = "TrainingStep"
    /\ Ran(k, TrainingStep_run(steps[k], nets[k]))

RunForwardStep(k) ==
    /\ steps[k].class = "ForwardStep"
    /\ Ran(k, ForwardStep_run(steps[k], nets[k]))

RunSgdStep(k) ==
    /\ steps[k].class = "SgdStep"
    /\ Ran(k, SgdStep_run(steps[k], nets[k]))

RunMomentumStep(k) ==
    /\ steps[k].class = "MomentumStep"
    /\ Ran(k, MomentumStep_run(steps[k], nets[k]))

RunNesterovStep(k) ==
    /\ steps[k].class = "NesterovStep"
    /\ Ran(k, NesterovStep_run(steps[k], nets[k]))

Next ==
    \E k \in Steps :
        \/ StartTrainingStep(k)
        \/ StartSgdStep(k)
        \/ StartMomentumStep(k)
        \/ RunTrainingStep(k)
        \/ RunForwardStep(k)
        \/ RunSgdStep(k)
        \/ RunMomentumStep(k)
        \/ RunNesterovStep(k)

Spec == Init /\ [][Next]_vars

\* ====================================================== properties ====
TScale(s, t) == [i \in 1..Len(t) |-> RMul(s, t[i])]
TAdd(a, b) == [i \in 1..Len(a) |-> RAdd(a[i], b[i])]
TSub(a, b) == [i \in 1..Len(a) |-> RSub(a[i], b[i])]

Calls(tr) == [i \in 1..Len(tr) |-> tr[i].call]

\* This step is a run() of step k, of class cls, made after start().
RunOf(k, cls) ==
    /\ steps[k].class = cls
    /\ nrun'[k] = nrun[k] + 1
    /\ steps[k].net # None

\* This step is a run() of step k made before start().
EarlyRunOf(k) ==
    /\ nrun'[k] = nrun[k] + 1
    /\ steps[k].net = None

\* The learning rate and the momentum the schedules yield in this step.
LrOf(k) == ScheduleValue(steps[k].learning_rate_schedule.spec,
                         steps[k].learning_rate_schedule.t + 1)
MomOf(k) == ScheduleValue(steps[k].momentum_schedule.spec,
                          steps[k].momentum_schedule.t + 1)
EffLrOf(k) == IF steps[k].scale_learning_rate
              THEN RMul(LrOf(k), RSub(One, MomOf(k)))
              ELSE LrOf(k)

\* Steps a and b were each started once and then ran the same number of times.
Aligned(a, b) ==
    /\ nstart[a] = 1 /\ nstart[b] = 1
    /\ nrun[a] = nrun[b]
    /\ nets[a].backward_calls = nrun[a]
    /\ nets[b].backward_calls = nrun[b]

\* C1: a run() of a started SgdStep with learning rate lr and gradients g
\* leaves parameters = parameters_before - lr * g and update = -lr * g,
\* whatever update held before.
C1_SgdUpdate ==
    [][\A k \in Steps : RunOf(k, "SgdStep") =>
          LET g == nets'[k].buffer.gradients
          IN  /\ nets'[k].buffer.parameters =
                     TSub(nets[k].buffer.parameters, TScale(LrOf(k), g))
              /\ steps'[k].update = Tensor(TScale(RNeg(LrOf(k)), g))]_vars

\* SgdStep(0.1) on parameters [1, 2] with gradients [1, 1], then a second run.
C1_Witness ==
    \E k \in Steps :
        /\ steps[k].class = "SgdStep"
        /\ nets[k].backward_calls = 2
        /\ nets[k].script = "scripted"
        /\ steps[k].learning_rate_schedule.spec = Constant(Rat(1, 10))
        /\ steps[k].update = Tensor(<<Rat(-2, 10), Rat(-3, 10)>>)
        /\ nets[k].buffer.parameters = <<Rat(7, 10), Rat(16, 10)>>

\* C2: a run() of a started MomentumStep computes
\* velocity = m * velocity_before - lr_eff * g and
\* parameters = parameters_before + velocity, lr_eff being lr * (1 - m) under
\* scale_learning_rate and lr otherwise, with m sampled once.
C2_MomentumUpdate ==
    [][\A k \in Steps : RunOf(k, "MomentumStep") =>
          LET g == nets'[k].buffer.gradients
              v == TSub(TScale(MomOf(k), steps[k].velocity.data), TScale(EffLrOf(k), g))
          IN  /\ steps'[k].velocity = Tensor(v)
              /\ nets'[k].buffer.parameters = TAdd(nets[k].buffer.parameters, v)
              /\ steps'[k].momentum_schedule.t = steps[k].momentum_schedule.t + 1]_vars

\* A second run of a scaled MomentumStep under a time-varying momentum.
C2_Witness ==
    \E k \in Steps :
        /\ steps[k].class = "MomentumStep"
        /\ steps[k].scale_learning_rate
        /\ steps[k].momentum_schedule.spec.kind = "TimeVarying"
        /\ nets[k].backward_calls = 2
        /\ steps[k].velocity.data[1] # Zero

\* C3: with momentum constantly 0 a MomentumStep and an SgdStep, started once
\* and run equally often, have equal parameters, and the velocity equals the
\* update.
C3_MomentumZeroIsSgd ==
    \A a, b \in Steps :
        ( /\ steps[a].class = "MomentumStep"
          /\ steps[b].class = "SgdStep"
          /\ steps[a].momentum_schedule.spec = Constant(Zero)
          /\ Aligned(a, b) )
        => /\ nets[a].buffer.parameters = nets[b].buffer.parameters
           /\ steps[a].velocity = steps[b].update

C3_Witness ==
    \E a, b \in Steps :
        /\ steps[a].class = "MomentumStep"
        /\ steps[b].class = "SgdStep"
        /\ steps[a].momentum_schedule.spec = Constant(Zero)
        /\ Aligned(a, b)
        /\ nrun[a] = 2
        /\ steps[a].velocity.data[1] # Zero

\* C4: with momentum constantly 0 a run() of a started NesterovStep shows the
\* forward and backward pass the unmodified parameters and changes the
\* parameters by -lr * gradients, as a run() of an SgdStep with that learning
\* rate does on the same network.
C4_NesterovZeroIsSgd ==
    [][\A k \in Steps :
          ( /\ RunOf(k, "NesterovStep")
            /\ steps[k].momentum_schedule.spec = Constant(Zero) )
          => LET sgd == [SgdStep_start(SgdStep_init(steps[k].learning_rate_schedule.spec),
                                       k, nets[k])
                             EXCEPT !.learning_rate_schedule = steps[k].learning_rate_schedule]
                 ref == SgdStep_run(sgd, nets[k])
             IN  /\ \A i \in 1..Len(trace'[k]) :
                        trace'[k][i].call \in {"forward_pass", "backward_pass"}
                            => trace'[k][i].parameters = nets[k].buffer.parameters
                 /\ nets'[k].buffer.parameters =
                        TSub(nets[k].buffer.parameters,
                             TScale(LrOf(k), nets'[k].buffer.gradients))
                 /\ nets'[k].buffer.parameters = ref.net.buffer.parameters]_vars

C4_Witness ==
    \E k \in Steps :
        /\ steps[k].class = "NesterovStep"
        /\ steps[k].momentum_schedule.spec = Constant(Zero)
        /\ nstart[k] = 1
        /\ nets[k].backward_calls = 2
        /\ steps[k].velocity.data[1] # Zero

\* C5: a run() of a started ForwardStep calls forward_pass once with
\* training_pass = use_training_pass, then get_loss_value, and nothing else;
\* the buffers are unchanged and the loss read after the forward pass is
\* returned.
C5_ForwardOnly ==
    [][\A k \in Steps : RunOf(k, "ForwardStep") =>
          /\ Calls(trace'[k]) = <<"forward_pass", "get_loss_value">>
          /\ nets'[k].forward_calls = nets[k].forward_calls + 1
          /\ nets'[k].backward_calls = nets[k].backward_calls
          /\ nets'[k].training_pass = steps[k].use_training_pass
          /\ nets'[k].buffer = nets[k].buffer
          /\ ret'[k] = Float(nets'[k].loss)
          /\ nets'[k].loss = forward_pass(nets[k], steps[k].use_training_pass).loss]_vars

C5_Witness ==
    \E k \in Steps :
        /\ steps[k].class = "ForwardStep"
        /\ steps[k].use_training_pass
        /\ nets[k].training_pass
        /\ nets[k].forward_calls = 2
        /\ ret[k] = Float(nets[k].loss)

\* C6: run() before start() of a ForwardStep, SgdStep, MomentumStep or
\* NesterovStep raises the attribute fault, returns no loss, makes no call on
\* the network or the handler and leaves the buffers and the auxiliary tensor
\* alone; run() of the base TrainingStep does nothing and returns None.
C6_RunBeforeStart ==
    [][\A k \in Steps : EarlyRunOf(k) =>
          IF steps[k].class = "TrainingStep"
          THEN /\ ret'[k] = None
               /\ steps'[k] = steps[k]
               /\ nets'[k] = nets[k]
               /\ trace'[k] = <<>>
          ELSE /\ ret'[k] = AttributeError
               /\ nets'[k] = nets[k]
               /\ steps'[k].net = None
               /\ \A i \in 1..Len(trace'[k]) :
                      trace'[k][i].call \in {"learning_rate_schedule", "momentum_schedule"}
               /\ steps[k].class = "SgdStep" => steps'[k].update = None
               /\ steps[k].class \in {"MomentumStep", "NesterovStep"}
                      => steps'[k].velocity = None]_vars

C6_Witness ==
    \E k \in Steps :
        /\ steps[k].class = "NesterovStep"
        /\ nstart[k] = 0
        /\ nrun[k] = 1
        /\ ret[k] = AttributeError
        /\ steps[k].velocity = None

\* The auxiliary tensor of a step: update of SgdStep, velocity of the others.
Aux(self) == IF self.class = "SgdStep" THEN self.update ELSE self.velocity
HasAux(k) == steps[k].class \in {"SgdStep", "MomentumStep", "NesterovStep"}

\* C7: the auxiliary tensor is None before start(); start() makes it a zero
\* tensor of the shape of the parameters; and from then on its shape is the
\* shape of the parameters.
C7_AuxShape ==
    /\ [](\A k \in Steps : HasAux(k) =>
             IF nstart[k] = 0
             THEN Aux(steps[k]) = None
             ELSE /\ Aux(steps[k]).tag = "tensor"
                  /\ shape(Aux(steps[k]).data) = shape(nets[k].buffer.parameters))
    /\ [][\A k \in Steps : (HasAux(k) /\ nstart'[k] = nstart[k] + 1) =>
             Aux(steps'[k]) = Tensor([i \in 1..Len(nets[k].buffer.parameters) |-> Zero])]_vars

C7_Witness ==
    \E k \in Steps :
        /\ steps[k].class = "MomentumStep"
        /\ nstart[k] = 1
        /\ nets[k].backward_calls = 2
        /\ shape(steps[k].velocity.data) = 2
        /\ steps[k].velocity.data[2] # Zero

\* C8: a run() of a started NesterovStep decays the velocity and moves the
\* parameters by it before the forward pass; forward_pass(training_pass=True)
\* and backward_pass see velocity = m * velocity_before and
\* parameters = parameters_before + m * velocity_before; afterwards
\* -lr_eff * gradients is added once to the velocity and once to the
\* parameters.
C8_NesterovLookahead ==
    [][\A k \in Steps : RunOf(k, "NesterovStep") =>
          LET mv == TScale(MomOf(k), steps[k].velocity.data)
              look == TAdd(nets[k].buffer.parameters, mv)
              corr == TScale(RNeg(EffLrOf(k)), nets'[k].buffer.gradients)
              tr == trace'[k]
          IN  /\ Calls(tr) = <<"learning_rate_schedule", "momentum_schedule",
                               "mult_st", "add_tt",
                               "forward_pass", "get_loss_value", "backward_pass",
                               "mult_add_st", "mult_add_st">>
              /\ \A i \in {5, 7} : tr[i].aux = Tensor(mv) /\ tr[i].parameters = look
              /\ nets'[k].training_pass
              /\ steps'[k].velocity = Tensor(TAdd(mv, corr))
              /\ nets'[k].buffer.parameters = TAdd(look, corr)]_vars

\* A run whose lookahead moved the parameters the forward pass saw.
C8_Witness ==
    \E k \in Steps :
        /\ steps[k].class = "NesterovStep"
        /\ nets[k].backward_calls = 2
        /\ Len(trace[k]) = 9
        /\ trace[k][5].call = "forward_pass"
        /\ trace[k][5].parameters # trace[k][1].parameters

\* C9: the learning-rate schedule, and the momentum schedule where there is
\* one, has been called once per run() call and by nothing else; in a run the
\* learning rate is sampled first, the momentum second, both before the
\* forward pass.
C9_ScheduleOncePerRun ==
    \A k \in Steps : HasAux(k) =>
        LET c == Calls(trace[k])
            mom == steps[k].class # "SgdStep"
        IN  /\ steps[k].learning_rate_schedule.t = nrun[k]
            /\ mom => steps[k].momentum_schedule.t = nrun[k]
            /\ nrun[k] > 0 =>
                  /\ c[1] = "learning_rate_schedule"
                  /\ mom => c[2] = "momentum_schedule"
                  /\ \A i \in 1..Len(c) :
                        c[i] \in {"learning_rate_schedule", "momentum_schedule"}
                            <=> i <= (IF mom THEN 2 ELSE 1)

C9_Witness ==
    \E k \in Steps :
        /\ steps[k].class = "NesterovStep"
        /\ nrun[k] = 2
        /\ nets[k].backward_calls = 1
        /\ steps[k].momentum_schedule.t = 2
        /\ steps[k].learning_rate_schedule.t = 2

\* C10: under scripted gradients a NesterovStep and a MomentumStep, started
\* once and run equally often, have equal velocity and equal parameters; and
\* every run() of either moves the parameters by the velocity it leaves.
C10_NesterovEqualsMomentum ==
    /\ [](\A a, b \in Steps :
             ( /\ steps[a].class = "NesterovStep"
               /\ steps[b].class = "MomentumStep"
               /\ nets[a].script = "scripted"
               /\ Aligned(a, b) )
             => /\ steps[a].velocity = steps[b].velocity
                /\ nets[a].buffer.parameters = nets[b].buffer.parameters)
    /\ [][\A k \in Steps :
             (RunOf(k, "NesterovStep") \/ RunOf(k, "MomentumStep"))
             => TSub(nets'[k].buffer.parameters, nets[k].buffer.parameters)
                    = steps'[k].velocity.data]_vars

C10_Witness ==
    \E a, b \in Steps :
        /\ steps[a].class = "NesterovStep"
        /\ steps[b].class = "MomentumStep"
        /\ nets[a].script = "scripted"
        /\ Aligned(a, b)
        /\ nrun[a] = 2
        /\ steps[a].momentum_schedule.spec.kind = "TimeVarying"
        /\ steps[a].velocity.data[1] # Zero
====
